---- MODULE Spec2Model ----
(***************************************************************************)
(* Model of ISR/predict/predictor.py: Predictor.get_predictions,           *)
(* Predictor._forward_pass and Predictor._predict, with the collaborators  *)
(* they call (process_array, process_output,                               *)
(* split_image_into_overlapping_patches, stich_together, model.predict,    *)
(* imageio.imwrite).                                                       *)
(*                                                                         *)
(* Names are resolved the way the source evidently means them: `model` in  *)
(* _forward_pass is the model given to get_predictions, and _predict is    *)
(* called with (model, image, patch size).                                 *)
(*                                                                         *)
(* Arrays are values with a shape and a sample at every (row, col); the    *)
(* three channels of a pixel are treated alike, so a sample stands for     *)
(* the pixel.  An array is kept as the expression that produced it        *)
(* (record field op) and Shape / Value evaluate it, so that the 1025-pixel *)
(* images of the tiling rule and the small images of the pixel-level       *)
(* properties go through the same operations.  Rows and columns are        *)
(* 0-based, as in the source.                                              *)
(***************************************************************************)
EXTENDS Integers, Sequences, FiniteSets, TLC

VARIABLES
    pc,          \* position of the program
    caller,      \* who called _predict: "get_predictions" or "direct"
    img_ls,      \* Predictor.img_ls: the images of the input directory
    k,           \* number of images of img_ls already handled by get_predictions
    sizeAxis,    \* which spatial axis lr_img.size[1] names (1 = rows, 2 = cols)
    model,       \* the model collaborator: [scale |-> n]
    args,        \* arguments of the running _predict call
    lr_img,      \* _predict local
    patches,     \* _predict local
    p_shape,     \* _predict local
    i,           \* _predict loop variable (next value of range)
    batch,       \* _predict local
    collect,     \* _predict local
    sr_img,      \* _predict / get_predictions local
    result,      \* what the last _predict call returned to its caller
    calls,       \* collaborator calls made for the current image, in order
    written,     \* what get_predictions handed to imageio.imwrite, in order
    error        \* the exception that left the program, if any

vars == <<pc, caller, img_ls, k, sizeAxis, model, args, lr_img, patches,
          p_shape, i, batch, collect, sr_img, result, calls, written, error>>

----------------------------------------------------------------------------
(* Bounds of the model *)

MaxH == 3
MaxW == 2
MaxPatch == 2
MaxPad == 1
MaxBatch == 3
MaxScale == 2
MaxImages == 2

(* Program constants *)

Channels == 3
Threshold == 1024
TilePatchSize == 256
DefaultBatchSize == 10
DefaultPaddingSize == 2

(* Fixed-point unit of the model domain: a sample v in 0..255 is v/255 there *)
Unit == 65536

Min(a, b) == IF a < b THEN a ELSE b
Max(a, b) == IF a > b THEN a ELSE b
CeilDiv(a, b) == (a + b - 1) \div b

----------------------------------------------------------------------------
(* Python values *)

\* None where an array is expected
None == [op |-> "None"]
\* An optional integer argument: <<>> is None, <<n>> is the integer n
NoneInt == <<>>
\* `if by_patch_of_size:`  -- None and 0 are falsy, any other integer is truthy
Truthy_positive(x) == x # NoneInt /\ x[1] > 0
Truthy_is_not_None(x) == x # NoneInt
Truthy(x) == x # NoneInt /\ x[1] # 0

\* s[lo:hi] on a sequence, 0-based, clipped to the sequence
Slice(s, lo, hi) == SubSeq(s, lo + 1, Min(hi, Len(s)))

NoError == [kind |-> "none"]

----------------------------------------------------------------------------
(* Arrays *)

\* The image read from a file: h x w x c samples
Image(h, w, c) == [op |-> "image", h |-> h, w |-> w, c |-> c]
\* Sample of a file image: differs from position to position
Pixel(img, r, c) == (17 + 16 * r + c) % 256

\* Array Codec, forward: display range 0..255 to the model's range 0..1
to_model_domain(v) == (v * Unit) \div 255
\* Array Codec, reverse: clip to the range, scale to 0..255, round
from_model_domain(p) == (Max(0, Min(Unit, p)) * 255 + Unit \div 2) \div Unit

\* process_array(image_array, expand): the array in the model domain;
\* with expand a batch of one
process_array(a, expand) ==
    LET n == [op |-> "to_model", of |-> a]
    IN  IF expand THEN <<n>> ELSE n
process_output(a) == [op |-> "from_model", of |-> a]

\* model.predict on one array: each side scaled by model.scale
predict_one(m, a) == [op |-> "predict", of |-> a, scale |-> m.scale]
\* model.predict(batch): same length, same order
predict(m, b) == [j \in 1..Len(b) |-> predict_one(m, b[j])]

\* split_image_into_overlapping_patches(image, patch_size, padding_size)
PaddedShape(shape, patch_size) ==
    <<CeilDiv(shape[1], patch_size) * patch_size,
      CeilDiv(shape[2], patch_size) * patch_size, 3>>
Patch(a, row, col, patch_size, padding_size) ==
    [op |-> "patch", of |-> a, row |-> row, col |-> col,
     patch_size |-> patch_size, padding_size |-> padding_size]
GridOf(shape, patch_size) ==
    LET ps == PaddedShape(shape, patch_size)
    IN  <<ps[1] \div patch_size, ps[2] \div patch_size>>
SplitPatches(a, shape, patch_size, padding_size) ==
    LET g == GridOf(shape, patch_size)
    IN  [n \in 1..(g[1] * g[2]) |->
            Patch(a, (n - 1) \div g[2], (n - 1) % g[2], patch_size, padding_size)]

\* stich_together(patches, padded_image_shape, target_shape, padding_size)
stich_together(ps, padded_image_shape, target_shape, padding_size) ==
    [op |-> "stitch", tiles |-> ps, padded |-> padded_image_shape,
     target |-> target_shape, padding_size |-> padding_size]

RECURSIVE Shape(_)
Shape(a) ==
    CASE a.op = "image"      -> <<a.h, a.w, a.c>>
      [] a.op = "to_model"   -> Shape(a.of)
      [] a.op = "from_model" -> Shape(a.of)
      [] a.op = "patch"      -> <<a.patch_size + 2 * a.padding_size,
                                  a.patch_size + 2 * a.padding_size, 3>>
      [] a.op = "predict"    -> LET s == Shape(a.of)
                                IN  <<a.scale * s[1], a.scale * s[2], s[3]>>
      [] a.op = "stitch"     -> a.target

\* Side of a tile once its overlap is cropped away
TileSide(s) == Shape(s.tiles[1])[1] - 2 * s.padding_size

RECURSIVE Value(_, _, _)
Value(a, r, c) ==
    CASE a.op = "image"      -> Pixel(a, r, c)
      [] a.op = "to_model"   -> to_model_domain(Value(a.of, r, c))
      [] a.op = "from_model" -> from_model_domain(Value(a.of, r, c))
      [] a.op = "patch"      ->
            \* position in the source image; outside it the canvas is zero-filled
            LET sh == Shape(a.of)
                sr == a.row * a.patch_size + r - a.padding_size
                sc == a.col * a.patch_size + c - a.padding_size
            IN  IF sr >= 0 /\ sr < sh[1] /\ sc >= 0 /\ sc < sh[2]
                THEN Value(a.of, sr, sc) ELSE 0
      [] a.op = "predict"    -> Value(a.of, r \div a.scale, c \div a.scale)
      [] a.op = "stitch"     ->
            \* row-major placement of the cropped tiles; unfilled canvas is zero
            LET t == Max(1, TileSide(a))
                ncols == a.padded[2] \div t
                n == (r \div t) * ncols + (c \div t) + 1
            IN  IF n <= Len(a.tiles)
                THEN Value(a.tiles[n], (r % t) + a.padding_size,
                                       (c % t) + a.padding_size)
                ELSE 0

----------------------------------------------------------------------------
(* The pieces of _predict *)

\* range(0, len(patches), batch_size): the value after x
range_next(x, batch_size) == x + batch_size

\* patches[i : i + batch_size]
BatchOf_overlapping(ps, x, batch_size) == Slice(ps, x, x + batch_size + 1)
BatchOf(ps, x, batch_size) == Slice(ps, x, x + batch_size)

\* if i == 0: collect = batch   else: collect = np.append(collect, batch, axis=0)
Append_collect_prepend(c, b, x) == IF x = 0 THEN b ELSE b \o c
Append_collect(c, b, x) == IF x = 0 THEN b ELSE c \o b

\* tuple(np.multiply(p_shape[0:2], scale)) + (3,)
padded_size_scaled(shape, scale) == <<shape[1] * scale, shape[2] * scale, 3>>

\* tuple(np.multiply(input_image_array.shape[0:2], scale)) + (3,)
scaled_image_shape_of_padded(image_shape, padded_shape, scale) ==
    <<padded_shape[1] * scale, padded_shape[2] * scale, 3>>
scaled_image_shape(image_shape, padded_shape, scale) ==
    <<image_shape[1] * scale, image_shape[2] * scale, 3>>

\* padding_size=padding_size * scale
stitch_padding(padding_size, scale) == padding_size * scale

\* the predictions handed to the stitch after the loop
stitch_input_last_batch(c, b) == b
stitch_input(c, b) == c

\* an exception of model.predict leaves _predict as it is: nothing catches it
raise_from_predict_wrapped(exc, lo, hi) ==
    [kind |-> "ModelInferenceError", range |-> <<lo, hi>>]
raise_from_predict(exc, lo, hi) == exc

\* the exception the model raises when it fails
ModelException == [kind |-> "ModelException"]
\* the splitter's rejection of a patch size that is not positive
InvalidPatchSize == [kind |-> "InvalidPatchSize"]
\* imageio's rejection of a value that is no array
ImwriteException == [kind |-> "ImwriteException"]

\* stich_together as _predict calls it, on the predictions ps
Stitch(ps) ==
    stich_together(ps,
        padded_size_scaled(p_shape, model.scale),
        scaled_image_shape(Shape(args.input_image_array), p_shape, model.scale),
        stitch_padding(args.padding_size, model.scale))

StitchCall(ps) == [fn |-> "stitch", n |-> Len(ps)]
PredictCall(b, ok) == [fn |-> "predict", batch |-> b, ok |-> ok]
SplitCall(patch_size, padding_size) ==
    [fn |-> "split", patch_size |-> patch_size, padding_size |-> padding_size]

----------------------------------------------------------------------------
(* Inputs *)

\* Images of the input directory
ImageFiles ==
    { Image(s[1], s[2], Channels) :
        s \in {<<1, 1>>, <<1, Threshold + 1>>, <<Threshold + 1, 1>>,
               <<Threshold, Threshold>>, <<Threshold + 1, Threshold + 1>>} }
    \cup { Image(1, 1, 4), Image(Threshold + 1, Threshold + 1, 4) }

RECURSIVE SeqsUpTo(_, _)
SeqsUpTo(S, n) ==
    IF n = 0 THEN {<<>>}
    ELSE LET shorter == SeqsUpTo(S, n - 1)
         IN  shorter \cup {Append(q, x) : q \in shorter, x \in S}

\* Images given to _predict by a direct caller
SmallImages == { Image(h, w, Channels) : h \in 1..MaxH, w \in 1..MaxW }
PatchSizes == {NoneInt, <<0>>, <<-1>>} \cup { <<n>> : n \in 1..MaxPatch }

NoArgs == [input_image_array |-> None, by_patch_of_size |-> NoneInt,
           batch_size |-> DefaultBatchSize, padding_size |-> DefaultPaddingSize]

Init ==
    /\ pc = "start"
    /\ caller = "none"
    /\ img_ls \in (SeqsUpTo(ImageFiles, MaxImages) \ {<<>>})
    /\ sizeAxis \in {1, 2}
    /\ k = 0
    /\ model = [scale |-> 1]
    /\ args = NoArgs
    /\ lr_img = None
    /\ patches = <<>>
    /\ p_shape = <<0, 0, 0>>
    /\ i = 0
    /\ batch = <<>>
    /\ collect = <<>>
    /\ sr_img = None
    /\ result = None
    /\ calls = <<>>
    /\ written = <<>>
    /\ error = NoError

locals == <<lr_img, patches, p_shape, i, batch, collect>>

----------------------------------------------------------------------------
(* Operations *)

\* get_predictions(model, weights_path), up to its loop over img_ls
get_predictions ==
    /\ pc = "start"
    /\ \E scale \in 1..MaxScale : model' = [scale |-> scale]
    /\ caller' = "get_predictions"
    /\ pc' = "for_img"
    /\ UNCHANGED <<img_ls, k, sizeAxis, args, locals, sr_img, result, calls,
                   written, error>>

\* lr_img.size[1]: the second entry of the image's size, one spatial axis only;
\* which one depends on the size convention of the array type ((rows, cols) or
\* (width, height)), so both readings are explored (sizeAxis)
size_1(img) == IF sizeAxis = 1 THEN img.h ELSE img.w

\* One turn of `for img_path in self.img_ls`, into _forward_pass
_forward_pass ==
    /\ pc = "for_img"
    /\ k < Len(img_ls)
    /\ LET img == img_ls[k + 1]
       IN  IF img.c = Channels
           THEN /\ args' = [input_image_array |-> img,
                            by_patch_of_size |->
                                IF size_1(img) > Threshold
                                THEN <<TilePatchSize>> ELSE NoneInt,
                            batch_size |-> DefaultBatchSize,
                            padding_size |-> DefaultPaddingSize]
                /\ pc' = "_predict"
                /\ UNCHANGED sr_img
           ELSE \* logs the error and returns None
                /\ sr_img' = None
                /\ pc' = "imwrite"
                /\ UNCHANGED args
    /\ calls' = <<>>
    /\ result' = None
    /\ UNCHANGED <<caller, img_ls, k, sizeAxis, model, locals, written, error>>

\* The loop over img_ls is exhausted
get_predictions_end ==
    /\ pc = "for_img"
    /\ k = Len(img_ls)
    /\ pc' = "done"
    /\ UNCHANGED <<caller, img_ls, k, sizeAxis, model, args, locals, sr_img,
                   result, calls, written, error>>

\* imageio.imwrite(output_path, sr_img), and on to the next image
imwrite ==
    /\ pc = "imwrite"
    /\ written' = Append(written, sr_img)
    /\ \E ok \in (IF sr_img = None THEN BOOLEAN ELSE {TRUE}) :
          IF ok
          THEN /\ k' = k + 1
               /\ pc' = "for_img"
               /\ UNCHANGED error
          ELSE /\ error' = ImwriteException
               /\ pc' = "raised"
               /\ UNCHANGED k
    /\ UNCHANGED <<caller, img_ls, sizeAxis, model, args, locals, sr_img,
                   result, calls>>

\* _predict called by a caller of its own choosing
infer ==
    /\ pc = "start"
    /\ img_ls = <<Image(1, 1, Channels)>>
    /\ sizeAxis = 1
    /\ \E img \in SmallImages, ps \in PatchSizes, bs \in 1..MaxBatch,
          pad \in 0..MaxPad, scale \in 1..MaxScale :
          /\ args' = [input_image_array |-> img, by_patch_of_size |-> ps,
                      batch_size |-> bs, padding_size |-> pad]
          /\ model' = [scale |-> scale]
    /\ caller' = "direct"
    /\ pc' = "_predict"
    /\ UNCHANGED <<img_ls, k, sizeAxis, locals, sr_img, result, calls,
                   written, error>>

\* _predict, from its entry to the loop (tiled) or to process_output (single pass)
_predict ==
    /\ pc = "_predict"
    /\ IF Truthy(args.by_patch_of_size)
       THEN LET P == args.by_patch_of_size[1]
                a == process_array(args.input_image_array, FALSE)
            IN  /\ lr_img' = a
                /\ calls' = Append(calls, SplitCall(P, args.padding_size))
                /\ IF P > 0
                   THEN /\ patches' = SplitPatches(a, Shape(a), P, args.padding_size)
                        /\ p_shape' = PaddedShape(Shape(a), P)
                        /\ i' = 0
                        /\ pc' = "loop"
                        /\ UNCHANGED error
                   ELSE /\ error' = InvalidPatchSize
                        /\ pc' = "raised"
                        /\ UNCHANGED <<patches, p_shape, i>>
                /\ UNCHANGED <<batch, collect, sr_img>>
       ELSE LET a == process_array(args.input_image_array, TRUE)
            IN  /\ lr_img' = a
                /\ \E ok \in BOOLEAN :
                      /\ calls' = Append(calls, PredictCall(a, ok))
                      /\ IF ok
                         THEN /\ sr_img' = predict(model, a)[1]
                              /\ pc' = "process_output"
                              /\ UNCHANGED error
                         ELSE /\ error' = raise_from_predict(ModelException, 0, 1)
                              /\ pc' = "raised"
                              /\ UNCHANGED sr_img
                /\ UNCHANGED <<patches, p_shape, i, batch, collect>>
    /\ UNCHANGED <<caller, img_ls, k, sizeAxis, model, args, result, written>>

\* One turn of `for i in range(0, len(patches), batch_size)`: the model call,
\* the collection of its output, and the stitch of what is collected so far
\* (whose process_output is computed and dropped)
batch_loop ==
    /\ pc = "loop"
    /\ i < Len(patches)
    /\ LET b == BatchOf(patches, i, args.batch_size)
       IN  \E ok \in BOOLEAN :
             IF ok
             THEN LET out == predict(model, b)
                      c == Append_collect(collect, out, i)
                  IN  /\ batch' = out
                      /\ collect' = c
                      /\ sr_img' = Stitch(c)
                      /\ calls' = calls \o <<PredictCall(b, TRUE), StitchCall(c)>>
                      /\ i' = range_next(i, args.batch_size)
                      /\ UNCHANGED <<pc, error>>
             ELSE /\ calls' = Append(calls, PredictCall(b, FALSE))
                  /\ error' = raise_from_predict(ModelException, i, i + Len(b))
                  /\ pc' = "raised"
                  /\ UNCHANGED <<batch, collect, sr_img, i>>
    /\ UNCHANGED <<caller, img_ls, k, sizeAxis, model, args, lr_img, patches,
                   p_shape, result, written>>

\* The stitch after the loop
after_loop ==
    /\ pc = "loop"
    /\ i >= Len(patches)
    /\ LET c == stitch_input(collect, batch)
       IN  /\ sr_img' = Stitch(c)
           /\ calls' = Append(calls, StitchCall(c))
    /\ pc' = "process_output"
    /\ UNCHANGED <<caller, img_ls, k, sizeAxis, model, args, locals, result,
                   written, error>>

\* sr_img = process_output(sr_img); return sr_img
_predict_return ==
    /\ pc = "process_output"
    /\ sr_img' = process_output(sr_img)
    /\ result' = sr_img'
    /\ pc' = IF caller = "direct" THEN "returned" ELSE "imwrite"
    /\ UNCHANGED <<caller, img_ls, k, sizeAxis, model, args, locals, calls,
                   written, error>>

Next ==
    \/ get_predictions
    \/ _forward_pass
    \/ get_predictions_end
    \/ imwrite
    \/ infer
    \/ _predict
    \/ batch_loop
    \/ after_loop
    \/ _predict_return

Spec == Init /\ [][Next]_vars

----------------------------------------------------------------------------
(* What the properties speak of *)

IsPredict(e) == e.fn = "predict"
IsStitch(e) == e.fn = "stitch"
IsSplit(e) == e.fn = "split"
PredictCalls == SelectSeq(calls, IsPredict)
StitchCalls == SelectSeq(calls, IsStitch)
SplitCalls == SelectSeq(calls, IsSplit)

RECURSIVE Flatten(_)
Flatten(ss) == IF ss = <<>> THEN <<>> ELSE Head(ss) \o Flatten(Tail(ss))
Batches == [n \in 1..Len(PredictCalls) |-> PredictCalls[n].batch]

InputImage == args.input_image_array
PatchArg == args.by_patch_of_size
\* _predict is past its branch on by_patch_of_size
Branched == pc \in {"loop", "process_output", "returned", "imwrite", "raised"}
             /\ InputImage # None /\ calls # <<>>
\* The tiled path was taken and its patches exist
TiledPath == Branched /\ SplitCalls # <<>> /\ patches # <<>>
\* The batch loop of the tiled path has finished
LoopFinished ==
    /\ TiledPath
    /\ \/ pc = "loop" /\ i >= Len(patches)
       \/ pc \in {"process_output", "returned", "imwrite"}
\* _predict has returned to its caller
Returned == result # None
\* model.predict raised on the tiled path
ModelFailedTiled ==
    /\ SplitCalls # <<>>
    /\ \E n \in 1..Len(calls) : calls[n].fn = "predict" /\ ~calls[n].ok

----------------------------------------------------------------------------
(* C1: when the batch loop of _predict has finished, collect has one       *)
(* prediction per patch and the prediction at index j is the model's       *)
(* output for the patch at index j.                                        *)
C1_OrderPreserved ==
    LoopFinished =>
        /\ Len(collect) = Len(patches)
        /\ \A j \in 1..Len(patches) : collect[j] = predict_one(model, patches[j])

C1_Witness ==
    /\ LoopFinished
    /\ pc = "loop"
    /\ Len(patches) >= 3
    /\ args.batch_size = 2

(* C2: on the tiled path the model is called once per group; the groups    *)
(* are consecutive slices of the patches in their order, each of at most   *)
(* batch_size patches and only the last one smaller; once the loop has     *)
(* finished every patch was passed exactly once, in ceil(N / batch_size)   *)
(* calls.                                                                  *)
C2_BatchPartition ==
    TiledPath =>
        LET done == Flatten(Batches)
            nb == Len(Batches)
        IN  /\ Len(done) <= Len(patches)
            /\ done = SubSeq(patches, 1, Len(done))
            /\ \A n \in 1..nb :
                  /\ Len(Batches[n]) >= 1
                  /\ Len(Batches[n]) <= args.batch_size
                  /\ (Len(Batches[n]) < args.batch_size =>
                          n = nb /\ Len(done) = Len(patches))
            /\ (LoopFinished =>
                  /\ done = patches
                  /\ nb = CeilDiv(Len(patches), args.batch_size))

C2_Witness ==
    /\ LoopFinished
    /\ Len(patches) = 3
    /\ args.batch_size = 2
    /\ Len(PredictCalls) = 2
    /\ Len(PredictCalls[2].batch) = 1

(* C3: on the tiled path the stitcher is called exactly once per image,    *)
(* and only when the predictions of every patch have been collected.       *)
C3_StitchOnce ==
    TiledPath =>
        /\ Len(StitchCalls) <= 1
        /\ \A n \in 1..Len(StitchCalls) : StitchCalls[n].n = Len(patches)
        /\ (Returned => Len(StitchCalls) = 1)

(* C4: an image whose channel axis is not of length 3 makes the pipeline   *)
(* fail with InvalidChannelCount before any patch is created and before    *)
(* any model call, and nothing is handed to file writing for it.           *)
C4_InvalidChannelCount ==
    (/\ caller = "get_predictions"
     /\ pc \in {"_predict", "loop", "process_output", "imwrite", "raised"}
     /\ img_ls[k + 1].c # Channels)
    =>  /\ pc = "raised"
        /\ error.kind = "InvalidChannelCount"
        /\ calls = <<>>
        /\ Len(written) = k

C6_TilingRule ==
    (caller = "get_predictions" /\ pc = "_predict") =>
        LET img == InputImage
        IN  /\ (PatchArg # NoneInt) <=> (Max(img.h, img.w) > Threshold)
            /\ (PatchArg # NoneInt => PatchArg = <<TilePatchSize>>)

(* C7: the image _predict returns has shape (scale*H, scale*W, 3), on the  *)
(* tiled path and on the single pass, whether or not the splitter padded.  *)
C7_TargetShape ==
    Returned =>
        Shape(result) = <<model.scale * InputImage.h, model.scale * InputImage.w, 3>>

C7_Witness ==
    /\ Returned
    /\ TiledPath
    /\ model.scale = 2
    /\ InputImage.h % PatchArg[1] # 0
    /\ p_shape[1] > InputImage.h

(* C8: for an image whose height and width are multiples of the patch      *)
(* size, any padding and batch size, an identity model of scale 1: the     *)
(* image returned by the tiled path is the input image, pixel for pixel.   *)
C8_RoundTrip ==
    (/\ Returned /\ TiledPath /\ caller = "direct"
     /\ model.scale = 1
     /\ InputImage.h % PatchArg[1] = 0
     /\ InputImage.w % PatchArg[1] = 0)
    =>  /\ Shape(result) = Shape(InputImage)
        /\ \A r \in 0..(InputImage.h - 1), c \in 0..(InputImage.w - 1) :
              Value(result, r, c) = Value(InputImage, r, c)

C8_Witness ==
    /\ pc = "returned"
    /\ TiledPath
    /\ model.scale = 1
    /\ InputImage.h = 2 /\ InputImage.w = 2 /\ PatchArg = <<1>>
    /\ args.padding_size = 1
    /\ args.batch_size = 3

(* C9: if model.predict raises for a group, the tiled inference fails with *)
(* ModelInferenceError carrying the group's index range; no later group is *)
(* submitted, nothing is retried and no result is returned.                *)
C9_ModelInferenceError ==
    ModelFailedTiled =>
        /\ pc = "raised"
        /\ error.kind = "ModelInferenceError"
        /\ error.range = <<i, Min(i + args.batch_size, Len(patches))>>
        /\ ~calls[Len(calls)].ok
        /\ result = None

(* C9, amended: if model.predict raises for a group, the tiled inference   *)
(* fails with the model's own exception, unchanged and without the group's *)
(* index range; the failing call is the last call made (no later group,    *)
(* no retry: every patch up to the failing group was passed once), no      *)
(* result is returned and nothing is written for the image.                *)
C9_FailFast ==
    ModelFailedTiled =>
        /\ pc = "raised"
        /\ error = ModelException
        /\ calls[Len(calls)].fn = "predict" /\ ~calls[Len(calls)].ok
        /\ \A n \in 1..(Len(calls) - 1) : calls[n].fn = "predict" => calls[n].ok
        /\ Flatten(Batches) = SubSeq(patches, 1, Min(i + args.batch_size, Len(patches)))
        /\ Len(PredictCalls) = (i \div args.batch_size) + 1
        /\ result = None
        /\ Len(written) = k

C9_Witness ==
    /\ ModelFailedTiled
    /\ pc = "raised"
    /\ Len(PredictCalls) = 2
    /\ Len(patches) >= 3

\* The single pass, and the tiled path, as the calls they leave behind
SinglePassRan ==
    /\ calls = <<PredictCall(<<[op |-> "to_model", of |-> InputImage]>>, TRUE)>>
FullPathRan ==
    /\ Len(SplitCalls) = 1 /\ calls[1].fn = "split"
    /\ Len(PredictCalls) >= 1
    /\ calls[Len(calls)] = [fn |-> "stitch", n |-> Len(patches)]

====
